---- MODULE Spec2Model ----
(***************************************************************************)
(* MBS prepayment model (mbs_analysis.py): the PSA prepayment speed, the   *)
(* month-by-month cash-flow generator, the WAL and price calculators and   *)
(* the Calculate handler of the input form.                                *)
(*                                                                         *)
(* Numbers.  The program computes in binary floating point: every          *)
(* multiplication and division is the exact result rounded to finite       *)
(* precision.  Here a rate is a fixed-point number with Scale units to 1   *)
(* and an amount of money is a whole number of the smallest representable  *)
(* amount; FixMul, FixDiv and RoundDiv are the exact result rounded to the *)
(* nearest unit, applied in the order the code applies its operators.      *)
(* Sums and differences of amounts are exact.                              *)
(***************************************************************************)
EXTENDS Integers, Sequences, FiniteSets, TLC

VARIABLES
    e1, e2, e3, e4, e5,        \* the five entry widgets: <<>> is text float() rejects, <<n>> a number
    lbl_wal, lbl_price, plot,  \* the two output labels and the plotted series
    edits,                     \* number of entry edits made by the user so far
    caller,                    \* "gui": the engine runs inside update_results; "direct": called on its own
    pc,                        \* position of the single thread of control
    err,                       \* outcome of the last call: "none" or the exception's type
    principal, coupon_rate, term_months, psa_factor, discount_rate,  \* arguments
    monthly_rate, monthly_payment, balance, month, cash_flows,       \* locals of mbs_cash_flows
    cpr,                       \* local cpr of the last psa_prepayment_speed call, before the clamp
    wal, mbs_price,            \* results of calculate_wal (<<>> is NaN) and price_mbs
    balances, paid             \* history: balance at the start of each month; sum of total_principal

entries == <<e1, e2, e3, e4, e5>>
display == <<lbl_wal, lbl_price, plot>>
args == <<principal, coupon_rate, term_months, psa_factor, discount_rate>>
locals == <<monthly_rate, monthly_payment, balance, month, cash_flows, cpr, wal, mbs_price,
            balances, paid>>
vars == <<entries, display, edits, caller, pc, err, args, locals>>

----------------------------------------------------------------------------
(* Finite-precision arithmetic *)

Scale == 100 * 100

\* literals of the program
PercentBase == 100
RampMonths == 30
MonthsPerYear == 12

Min(a, b) == IF a <= b THEN a ELSE b
Max(a, b) == IF a >= b THEN a ELSE b

\* round(a / b), halves up, for b > 0
RoundDivPos(a, b) == (2 * a + b) \div (2 * b)
RoundDiv(a, b) == IF b > 0 THEN RoundDivPos(a, b) ELSE RoundDivPos(0 - a, 0 - b)

\* round(a * b / Scale), computed in parts so that no intermediate exceeds the result's size
FixMul(a, b) ==
    LET ah == a \div Scale
        al == a % Scale
        bh == b \div Scale
        bl == b % Scale
    IN  a * bh + ah * bl + RoundDivPos(al * bl, Scale)

\* round(a * Scale / b) for b > 0, by long division in base 100
FixDivPos(a, b) ==
    LET q0 == a \div b
        r0 == a % b
        q1 == (r0 * 100) \div b
        r1 == (r0 * 100) % b
        q2 == (r1 * 100) \div b
        r2 == (r1 * 100) % b
    IN  q0 * Scale + q1 * 100 + q2 + (IF 2 * r2 >= b THEN 1 ELSE 0)
FixDiv(a, b) == IF b > 0 THEN FixDivPos(a, b) ELSE FixDivPos(0 - a, 0 - b)

\* b ** n for a fixed-point base b and an integer exponent n, by repeated squaring
RECURSIVE PowNat(_, _)
PowNat(b, n) ==
    IF n = 0 THEN Scale
    ELSE LET half == PowNat(b, n \div 2)
             square == FixMul(half, half)
         IN  IF n % 2 = 1 THEN FixMul(square, b) ELSE square
PowFix(b, n) == IF n >= 0 THEN PowNat(b, n) ELSE FixDiv(Scale, PowNat(b, 0 - n))

\* x ** (1 / 12) for 0 <= x <= 1: the largest y whose twelfth power is at most x
RECURSIVE RootSearch(_, _, _)
RootSearch(x, lo, hi) ==
    IF lo >= hi THEN lo
    ELSE LET mid == (lo + hi + 1) \div 2
         IN  IF PowNat(mid, MonthsPerYear) <= x THEN RootSearch(x, mid, hi)
             ELSE RootSearch(x, lo, mid - 1)
Root12(x) == RootSearch(x, 0, Scale)

\* np.sum: pairwise summation
RECURSIVE SumFromTo(_, _, _)
SumFromTo(s, lo, hi) ==
    IF lo > hi THEN 0
    ELSE IF lo = hi THEN s[lo]
    ELSE LET mid == (lo + hi) \div 2
         IN  SumFromTo(s, lo, mid) + SumFromTo(s, mid + 1, hi)
SumSeq(s) == SumFromTo(s, 1, Len(s))

----------------------------------------------------------------------------
(* psa_prepayment_speed *)

RampCpr == (2 * Scale) \div 1000     \* 0.002
FlatCpr == (6 * Scale) \div 100      \* 0.06

PsaMultiplier(psa) == FixDiv(psa, PercentBase)

\* cpr as lines 11-14 compute it, before the clamp of line 15
CprRaw(m, psa) ==
    IF m <= RampMonths
    THEN FixMul(FixMul(RampCpr, FixDiv(m, RampMonths)), PsaMultiplier(psa))
    ELSE FixMul(FlatCpr, PsaMultiplier(psa))

CprClamped(m, psa) == Min(Max(CprRaw(m, psa), 0), Scale)

psa_prepayment_speed(m, psa) == Scale - Root12(Scale - CprClamped(m, psa))

----------------------------------------------------------------------------
(* mbs_cash_flows, calculate_wal, price_mbs *)

MonthlyRate(coupon) == RoundDiv(coupon, MonthsPerYear)

\* lines 26-30 divide by term_months, or by factor - 1
PaymentRaises(r, n) ==
    IF r <= 0 THEN n = 0 ELSE PowFix(Scale + r, n) - Scale = 0

\* the straight-line payment spread over a year instead of over the term
MonthlyPayment_PerYear(p, r, n) ==
    IF r <= 0 THEN RoundDiv(p, MonthsPerYear)
    ELSE LET factor == PowFix(Scale + r, n)
         IN  FixDiv(FixMul(FixMul(p, r), factor), factor - Scale)
MonthlyPayment(p, r, n) ==
    IF r <= 0 THEN RoundDiv(p, n)
    ELSE LET factor == PowFix(Scale + r, n)
         IN  FixDiv(FixMul(FixMul(p, r), factor), factor - Scale)

\* the comparison of line 33 turned round
Retired_Inverted(b) == b >= 0
\* line 33
Retired(b) == b <= 0

Interest(b, r) == FixMul(b, r)
ScheduledPrincipal(pay, int, b) == Min(pay - int, b)
Prepayment(b, smm) == FixMul(b, smm)
\* line 40 without its cap at the balance
TotalPrincipal_Uncapped(sched, prep, b) == sched + prep
TotalPrincipal(sched, prep, b) == Min(sched + prep, b)

\* cash_flows * months, months = 1 .. len(cash_flows)
TimesMonths(s) == [t \in 1..Len(s) |-> s[t] * t]

NonFinite == <<>>

\* np.sum(cash_flows * months) / np.sum(cash_flows): a zero denominator gives nan or inf
calculate_wal(s) ==
    IF SumSeq(s) = 0 THEN NonFinite ELSE <<FixDiv(SumSeq(TimesMonths(s)), SumSeq(s))>>

DiscountFactor(d, t) == PowFix(Scale + RoundDiv(d, MonthsPerYear), 0 - t)

\* cash_flows * discount_factors
Discounted(s, d) == [t \in 1..Len(s) |-> FixMul(s[t], DiscountFactor(d, t))]

\* the sum started one month late
price_mbs_SkipsFirst(s, d) == SumFromTo(Discounted(s, d), 2, Len(s))
price_mbs(s, d) == SumSeq(Discounted(s, d))

----------------------------------------------------------------------------
(* The form *)

DefaultPrincipal == 1000000
DefaultCoupon == 5
DefaultTermYears == 30
DefaultPsa == 100
DefaultDiscount == 4

\* the term entry is counted in steps of 1 / YearSteps year, so that a term can
\* fall between two whole months
YearSteps == 2 * MonthsPerYear
HighPsa == 5000 * PercentBase

MaxEdits == 1
MaxTermSteps == 5
MaxTerm == 4
MaxPrincipal == 8

Unparsable == <<>>
PrincipalTexts == {Unparsable, <<0>>, <<DefaultPrincipal>>}
CouponTexts == {<<0 - 1>>, <<0>>, <<DefaultCoupon>>}
TermTexts == {<<h>> : h \in 0..MaxTermSteps} \cup {<<DefaultTermYears * YearSteps>>}
PsaTexts == {<<0 - 1>>, <<0>>, <<DefaultPsa>>, <<HighPsa>>}
DiscountTexts == {<<0 - 1>>, <<0>>, <<DefaultDiscount>>}

Parses(e) == Len(e) = 1
Float(e) == e[1]

\* int(x): truncation towards zero of a / b
Trunc(a, b) == IF a >= 0 THEN a \div b ELSE 0 - ((0 - a) \div b)

PercentToRate(x) == FixDiv(x, PercentBase)
TermMonths(steps) == Trunc(steps * MonthsPerYear, YearSteps)

\* line 67
Rejected(p, c, steps, psa, d) == p <= 0 \/ c < 0 \/ steps <= 0 \/ psa < 0 \/ d < 0

Blank == [shown |-> FALSE, val |-> <<>>]
Label(v) == [shown |-> TRUE, val |-> v]
\* f"{x:.2f}": x rounded to hundredths
FormatRate(w) == IF w = NonFinite THEN NonFinite ELSE <<RoundDiv(w[1] * 100, Scale)>>
FormatAmount(a) == <<a * 100>>

NoLocals ==
    /\ monthly_rate' = 0
    /\ monthly_payment' = 0
    /\ balance' = 0
    /\ month' = 0
    /\ cash_flows' = <<>>
    /\ cpr' = 0
    /\ wal' = NonFinite
    /\ mbs_price' = 0
    /\ balances' = <<>>
    /\ paid' = 0

NoArgs ==
    /\ principal' = 0
    /\ coupon_rate' = 0
    /\ term_months' = 0
    /\ psa_factor' = 0
    /\ discount_rate' = 0

Init ==
    /\ e1 = <<DefaultPrincipal>>
    /\ e2 = <<DefaultCoupon>>
    /\ e3 = <<DefaultTermYears * YearSteps>>
    /\ e4 = <<DefaultPsa>>
    /\ e5 = <<DefaultDiscount>>
    /\ lbl_wal = Blank
    /\ lbl_price = Blank
    /\ plot = <<>>
    /\ edits = 0
    /\ caller = "gui"
    /\ pc = "idle"
    /\ err = "none"
    /\ principal = 0 /\ coupon_rate = 0 /\ term_months = 0 /\ psa_factor = 0
    /\ discount_rate = 0
    /\ monthly_rate = 0 /\ monthly_payment = 0 /\ balance = 0 /\ month = 0
    /\ cash_flows = <<>> /\ cpr = 0 /\ wal = NonFinite /\ mbs_price = 0
    /\ balances = <<>> /\ paid = 0

\* the user retypes one entry while the form is idle
SetField ==
    /\ pc = "idle"
    /\ edits < MaxEdits
    /\ edits' = edits + 1
    /\ \/ e1' \in PrincipalTexts \ {e1} /\ UNCHANGED <<e2, e3, e4, e5>>
       \/ e2' \in CouponTexts \ {e2} /\ UNCHANGED <<e1, e3, e4, e5>>
       \/ e3' \in TermTexts \ {e3} /\ UNCHANGED <<e1, e2, e4, e5>>
       \/ e4' \in PsaTexts \ {e4} /\ UNCHANGED <<e1, e2, e3, e5>>
       \/ e5' \in DiscountTexts \ {e5} /\ UNCHANGED <<e1, e2, e3, e4>>
    /\ UNCHANGED <<display, caller, pc, err, args, locals>>

AllParse == Parses(e1) /\ Parses(e2) /\ Parses(e3) /\ Parses(e4) /\ Parses(e5)

\* update_results, lines 60-64 raise ValueError; line 94 shows it
ParseError ==
    /\ pc = "idle"
    /\ ~AllParse
    /\ err' = "ValueError"
    /\ UNCHANGED <<entries, display, edits, caller, pc, args, locals>>

\* a rejection that also clears the displayed results
RejectInput_ClearsDisplay ==
    /\ pc = "idle"
    /\ AllParse
    /\ Rejected(Float(e1), PercentToRate(Float(e2)), Float(e3), Float(e4),
                PercentToRate(Float(e5)))
    /\ err' = "ValueError"
    /\ lbl_wal' = Blank
    /\ lbl_price' = Blank
    /\ plot' = <<>>
    /\ UNCHANGED <<entries, edits, caller, pc, args, locals>>

\* update_results, lines 67-68 raise ValueError; line 94 shows it
RejectInput ==
    /\ pc = "idle"
    /\ AllParse
    /\ Rejected(Float(e1), PercentToRate(Float(e2)), Float(e3), Float(e4),
                PercentToRate(Float(e5)))
    /\ err' = "ValueError"
    /\ UNCHANGED <<entries, display, edits, caller, pc, args, locals>>

\* update_results, lines 60-71: the inputs pass and the engine is called
AcceptInput ==
    /\ pc = "idle"
    /\ AllParse
    /\ ~Rejected(Float(e1), PercentToRate(Float(e2)), Float(e3), Float(e4),
                 PercentToRate(Float(e5)))
    /\ principal' = Float(e1)
    /\ coupon_rate' = PercentToRate(Float(e2))
    /\ term_months' = TermMonths(Float(e3))
    /\ psa_factor' = Float(e4)
    /\ discount_rate' = PercentToRate(Float(e5))
    /\ pc' = "payment"
    /\ err' = "none"
    /\ UNCHANGED <<entries, display, edits, caller, locals>>

\* mbs_cash_flows, lines 21-30
ComputePayment ==
    /\ pc = "payment"
    /\ IF PaymentRaises(MonthlyRate(coupon_rate), term_months)
       THEN /\ err' = "ZeroDivisionError"
            /\ pc' = IF caller = "gui" THEN "idle" ELSE "done"
            /\ NoLocals
            /\ IF caller = "gui" THEN NoArgs ELSE UNCHANGED args
       ELSE /\ monthly_rate' = MonthlyRate(coupon_rate)
            /\ balance' = principal
            /\ cash_flows' = <<>>
            /\ monthly_payment' = MonthlyPayment(principal, MonthlyRate(coupon_rate), term_months)
            /\ month' = 1
            /\ balances' = <<>>
            /\ paid' = 0
            /\ pc' = "loop"
            /\ UNCHANGED <<err, args, cpr, wal, mbs_price>>
    /\ UNCHANGED <<entries, display, edits, caller>>

\* a retired month skipped without an entry
LoopRetired_NoAppend ==
    /\ pc = "loop"
    /\ month <= term_months
    /\ Retired(balance)
    /\ balances' = Append(balances, balance)
    /\ month' = month + 1
    /\ UNCHANGED <<entries, display, edits, caller, pc, err, args, monthly_rate,
                   monthly_payment, balance, cash_flows, cpr, wal, mbs_price, paid>>

\* mbs_cash_flows, lines 33-35
LoopRetired ==
    /\ pc = "loop"
    /\ month <= term_months
    /\ Retired(balance)
    /\ cash_flows' = Append(cash_flows, 0)
    /\ balances' = Append(balances, balance)
    /\ month' = month + 1
    /\ UNCHANGED <<entries, display, edits, caller, pc, err, args, monthly_rate,
                   monthly_payment, balance, cpr, wal, mbs_price, paid>>

\* mbs_cash_flows, lines 36-43
LoopStep ==
    /\ pc = "loop"
    /\ month <= term_months
    /\ ~Retired(balance)
    /\ LET smm == psa_prepayment_speed(month, psa_factor)
           interest == Interest(balance, monthly_rate)
           scheduled_principal == ScheduledPrincipal(monthly_payment, interest, balance)
           prepayment == Prepayment(balance, smm)
           total_principal == TotalPrincipal(scheduled_principal, prepayment, balance)
           cash_flow == interest + total_principal
       IN  /\ cash_flows' = Append(cash_flows, cash_flow)
           /\ balance' = balance - total_principal
           /\ paid' = paid + total_principal
    /\ cpr' = CprRaw(month, psa_factor)
    /\ balances' = Append(balances, balance)
    /\ month' = month + 1
    /\ UNCHANGED <<entries, display, edits, caller, pc, err, args, monthly_rate,
                   monthly_payment, wal, mbs_price>>

\* mbs_cash_flows, line 45
Return ==
    /\ pc = "loop"
    /\ month > term_months
    /\ pc' = "wal"
    /\ UNCHANGED <<entries, display, edits, caller, err, args, locals>>

\* calculate_wal, lines 49-50
CalculateWal ==
    /\ pc = "wal"
    /\ wal' = calculate_wal(cash_flows)
    /\ pc' = "price"
    /\ UNCHANGED <<entries, display, edits, caller, err, args, monthly_rate,
                   monthly_payment, balance, month, cash_flows, cpr, mbs_price,
                   balances, paid>>

\* price_mbs, lines 54-55
PriceMbs ==
    /\ pc = "price"
    /\ mbs_price' = price_mbs(cash_flows, discount_rate)
    /\ pc' = IF caller = "gui" THEN "display" ELSE "done"
    /\ UNCHANGED <<entries, display, edits, caller, err, args, monthly_rate,
                   monthly_payment, balance, month, cash_flows, cpr, wal,
                   balances, paid>>

\* update_results, lines 76-91
ShowResults ==
    /\ pc = "display"
    /\ lbl_wal' = Label(FormatRate(wal))
    /\ lbl_price' = Label(FormatAmount(mbs_price))
    /\ plot' = cash_flows
    /\ pc' = "idle"
    /\ NoLocals
    /\ NoArgs
    /\ UNCHANGED <<entries, edits, caller, err>>

Engine == ComputePayment \/ LoopRetired \/ LoopStep \/ Return \/ CalculateWal \/ PriceMbs

Next == SetField \/ ParseError \/ RejectInput \/ AcceptInput \/ Engine \/ ShowResults

Spec == Init /\ [][Next]_vars

----------------------------------------------------------------------------
(* The engine called on its own, with any arguments *)

EnginePrincipals == {0 - 1, 0} \cup (1..MaxPrincipal) \cup {DefaultPrincipal}
EngineCoupons == {0, PercentToRate(DefaultCoupon)}
EngineTerms == ((0 - 1)..MaxTerm) \cup {RampMonths + 1}
EnginePsas == {0, DefaultPsa, HighPsa}
EngineDiscounts == {0, PercentToRate(DefaultDiscount)}

EngineInit ==
    /\ e1 = <<DefaultPrincipal>>
    /\ e2 = <<DefaultCoupon>>
    /\ e3 = <<DefaultTermYears * YearSteps>>
    /\ e4 = <<DefaultPsa>>
    /\ e5 = <<DefaultDiscount>>
    /\ lbl_wal = Blank
    /\ lbl_price = Blank
    /\ plot = <<>>
    /\ edits = 0
    /\ caller = "direct"
    /\ pc = "payment"
    /\ err = "none"
    /\ principal \in EnginePrincipals
    /\ coupon_rate \in EngineCoupons
    /\ term_months \in EngineTerms
    /\ psa_factor \in EnginePsas
    /\ discount_rate \in EngineDiscounts
    /\ monthly_rate = 0 /\ monthly_payment = 0 /\ balance = 0 /\ month = 0
    /\ cash_flows = <<>> /\ cpr = 0 /\ wal = NonFinite /\ mbs_price = 0
    /\ balances = <<>> /\ paid = 0

EngineNext == Engine

EngineSpec == EngineInit /\ [][EngineNext]_vars

----------------------------------------------------------------------------
(* Properties *)

ValidInput == principal > 0 /\ term_months >= 1 /\ coupon_rate >= 0 /\ psa_factor >= 0
InLoopOrLater == pc \in {"loop", "wal", "price", "display", "done"} /\ err = "none"
Returned == pc \in {"wal", "price", "display", "done"} /\ err = "none"
Months == DOMAIN cash_flows

\* C1: for every psa_factor, the cpr computed (before the clamp) for month 30, the
\* last month of the ramp, equals 0.06 x psa_factor / 100, the flat value of the
\* months after 30.
C1_RampEndsAtFlatCpr ==
    (pc = "loop" /\ month = RampMonths + 1 /\ ~Retired(balances[RampMonths]))
        => cpr = FixMul(FlatCpr, PsaMultiplier(psa_factor))

\* C2: mbs_cash_flows called with term_months < 1 or principal <= 0 fails with
\* InvalidInput before any computation and returns no series.
C2_InvalidInputRaised ==
    (caller = "direct" /\ pc # "payment" /\ (term_months < 1 \/ principal <= 0))
        => (pc = "done" /\ err = "InvalidInput")

\* C3: whenever update_results has invoked the engine, the arguments satisfy
\* principal > 0, term_months >= 1, coupon_rate >= 0, psa_factor >= 0 and
\* discount_rate >= 0.
C3_EnginePreconditions ==
    (caller = "gui" /\ pc \in {"payment", "loop", "wal", "price"})
        => (principal > 0 /\ term_months >= 1 /\ coupon_rate >= 0 /\ psa_factor >= 0
            /\ discount_rate >= 0)

\* C4: calculate_wal applied to a series whose cash flows are all zero (the empty
\* series included) signals DegenerateSeries and returns no NaN or infinity.
C4_DegenerateSeriesSignalled ==
    (pc = "price" /\ \A i \in Months : cash_flows[i] = 0)
        => (err = "DegenerateSeries" /\ wal # NonFinite)

C6_ZeroThenAlwaysZero ==
    (ValidInput /\ InLoopOrLater)
        => \A i, j \in Months : (i < j /\ cash_flows[i] = 0) => cash_flows[j] = 0

\* C6 amended: for every valid input whose level monthly payment is positive, a
\* zero cash flow is emitted only in a month that starts with balance <= 0, and
\* in every later month the balance is still <= 0 and the cash flow is 0.
C6_ZeroOnlyWhenRetired ==
    (ValidInput /\ InLoopOrLater /\ monthly_payment > 0)
        => \A i \in Months :
              cash_flows[i] = 0
                  => /\ balances[i] <= 0
                     /\ \A j \in Months : j > i => (cash_flows[j] = 0 /\ balances[j] <= 0)

\* C6 witness: a positive payment, and a loan retired before the last month
C6_RetiredEarly ==
    /\ ValidInput /\ pc = "done" /\ err = "none" /\ monthly_payment > 0
    /\ cash_flows[1] > 0
    /\ \E i \in Months : i < Len(cash_flows) /\ cash_flows[i] = 0

\* C7: for term_months >= 1 the loop appends exactly one entry per month, in
\* month order, and the returned series has exactly term_months entries.
C7_OneEntryPerMonth ==
    (term_months >= 1 /\ err = "none")
        => /\ pc = "loop" => (Len(cash_flows) = month - 1 /\ month <= term_months + 1)
           /\ Returned => Len(cash_flows) = term_months

\* C7 witness: a returned series whose loan was retired before the end of the term
C7_FullLengthThoughRetired ==
    /\ Returned /\ term_months > 1
    /\ Len(cash_flows) = term_months
    /\ cash_flows[1] > 0
    /\ cash_flows[term_months] = 0 /\ Retired(balances[term_months])

\* C8 as stated: for coupon_rate = 0 and psa_factor = 0, principal > 0 and
\* term_months >= 1, every cash flow equals principal / term_months, the series
\* sums to principal, and the balance is 0 after the last month.
C8_StraightLine ==
    (Returned /\ coupon_rate = 0 /\ psa_factor = 0 /\ principal > 0 /\ term_months >= 1)
        => /\ \A i \in Months : cash_flows[i] = RoundDiv(principal, term_months)
           /\ SumSeq(cash_flows) = principal
           /\ balance = 0

\* C8 amended: the same, for the inputs whose quotient principal / term_months is
\* computed without rounding.
C8_StraightLineExactQuotient ==
    (Returned /\ coupon_rate = 0 /\ psa_factor = 0 /\ principal > 0 /\ term_months >= 1
       /\ RoundDiv(principal, term_months) * term_months = principal)
        => /\ \A i \in Months : cash_flows[i] * term_months = principal
           /\ SumSeq(cash_flows) = principal
           /\ balance = 0

\* C8 witness: a straight-line run of several months with an exact quotient
C8_ExactRun ==
    /\ pc = "done" /\ err = "none" /\ coupon_rate = 0 /\ psa_factor = 0
    /\ term_months > 2 /\ principal > term_months
    /\ RoundDiv(principal, term_months) * term_months = principal
    /\ Len(cash_flows) = term_months

\* C9: the labels and the plot change only in the last step of an invocation of
\* update_results that raised nothing, all three together and from the series,
\* WAL and price computed from the entries as they are; an invocation that fails
\* leaves all three as they were.
C9_FailureKeepsDisplay ==
    [][/\ display' # display
          => /\ pc = "display" /\ err = "none" /\ pc' = "idle"
             /\ principal = Float(e1) /\ coupon_rate = PercentToRate(Float(e2))
             /\ term_months = TermMonths(Float(e3)) /\ psa_factor = Float(e4)
             /\ discount_rate = PercentToRate(Float(e5))
             /\ Len(cash_flows) = term_months
             /\ lbl_wal' = Label(FormatRate(calculate_wal(cash_flows)))
             /\ lbl_price' = Label(FormatAmount(price_mbs(cash_flows, discount_rate)))
             /\ plot' = cash_flows
       /\ err' # "none" => display' = display]_vars

\* C9 witness: results are displayed and a later invocation has failed
C9_FailedAfterSuccess ==
    /\ pc = "idle" /\ err \in {"ValueError", "ZeroDivisionError"}
    /\ lbl_wal.shown /\ lbl_price.shown /\ Len(plot) > 0

\* C10: price_mbs(series, 0) is the plain sum of the series, and for
\* discount_rate >= 0 and non-negative cash flows the price is non-negative.
C10_PriceAtZeroIsSum ==
    (pc \in {"display", "done"} /\ err = "none")
        => /\ discount_rate = 0 => mbs_price = SumSeq(cash_flows)
           /\ (discount_rate >= 0 /\ \A i \in Months : cash_flows[i] >= 0) => mbs_price >= 0

\* C10 witness: a series of several positive cash flows priced at discount rate 0
C10_PricedAtZero ==
    /\ pc = "done" /\ err = "none" /\ discount_rate = 0
    /\ Len(cash_flows) > 1 /\ \A i \in Months : cash_flows[i] > 0
    /\ mbs_price = SumSeq(cash_flows)

====
